---- MODULE Spec2Model ----
(***************************************************************************)
(* Model of open_rgb_client: the sampling / smoothing / colour-mapping     *)
(* control loop (src/main.rs, src/color_manager.rs) and its service-mode   *)
(* shutdown protocol.                                                      *)
(*                                                                         *)
(* f32 values are modelled bit-exactly (IEEE-754 binary32, round to        *)
(* nearest even) as <<sign, m, e>> with value sign * m * 2^e, where        *)
(* m = 0 or 2^23 <= m < 2^24.  All intermediate integers stay below 2^31.  *)
(***************************************************************************)
EXTENDS Integers, Sequences, FiniteSets, TLC

(***************************************************************************)
(* ---------------------------  f32 arithmetic  -------------------------- *)
(***************************************************************************)

\* 2^0 .. 2^30
Pow2Table == <<
    1, 2, 4, 8, 16, 32, 64, 128, 256, 512, 1024, 2048, 4096, 8192,
    16384, 32768, 65536, 131072, 262144, 524288, 1048576, 2097152,
    4194304, 8388608, 16777216, 33554432, 67108864, 134217728,
    268435456, 536870912, 1073741824 >>

Pow2(n) == Pow2Table[n + 1]

\* Number of significant bits of x, 0 <= x < 2^31.
BitLen(x) ==
    IF x <= 0 THEN 0
    ELSE CHOOSE n \in 1..31 : Pow2(n - 1) <= x /\ (n = 31 \/ x < Pow2(n))

F32Zero == <<1, 0, 0>>

Sgn(x) == x[1]
Man(x) == x[2]
Exp(x) == x[3]

IsZero(x) == Man(x) = 0

\* Every operator below binds its arguments once ({.. : x \in {x0}}) before
\* using them, so that an argument expression is evaluated a single time.

\* x >> k rounded to nearest, ties to even; sticky says that non-zero bits
\* lie below the least significant bit of x.
RoundShiftV(x, k, sticky) ==
    IF k = 0 THEN x
    ELSE LET q    == x \div Pow2(k)
             r    == x % Pow2(k)
             half == Pow2(k - 1)
         IN  IF r > half \/ (r = half /\ sticky) THEN q + 1
             ELSE IF r = half THEN q + (q % 2)
             ELSE q

RoundShift(x0, k0, sticky0) ==
    CHOOSE r \in {RoundShiftV(x, k, sticky) : x \in {x0}, k \in {k0}, sticky \in {sticky0}} : TRUE

\* The f32 nearest to sign * (M + sticky fraction) * 2^E, for 0 <= M < 2^31.
NormalizeV(sign, M, E, sticky) ==
    IF M = 0 THEN F32Zero
    ELSE IF BitLen(M) > 24
         THEN IF RoundShift(M, BitLen(M) - 24, sticky) = Pow2(24)
              THEN <<sign, Pow2(23), E + (BitLen(M) - 24) + 1>>
              ELSE <<sign, RoundShift(M, BitLen(M) - 24, sticky), E + (BitLen(M) - 24)>>
         ELSE <<sign, M * Pow2(24 - BitLen(M)), E - (24 - BitLen(M))>>

Normalize(sign0, M0, E0, sticky0) ==
    CHOOSE r \in {NormalizeV(sign, M, E, sticky) :
                    sign \in {sign0}, M \in {M0}, E \in {E0}, sticky \in {sticky0}} : TRUE

\* |x| >= |y| for normalised values.
MagGeq(x, y) ==
    IF IsZero(y) THEN TRUE
    ELSE IF IsZero(x) THEN FALSE
    ELSE Exp(x) > Exp(y) \/ (Exp(x) = Exp(y) /\ Man(x) >= Man(y))

\* Magnitude addition / subtraction with three guard bits and a sticky bit;
\* big has the larger magnitude, both are non-zero.  <<m, sticky>> is the
\* smaller mantissa aligned to the exponent of the larger one.
AlignedSmall(big, small) ==
    IF Exp(big) - Exp(small) >= 27 THEN <<0, TRUE>>
    ELSE << (Man(small) * 8) \div Pow2(Exp(big) - Exp(small)),
            ((Man(small) * 8) % Pow2(Exp(big) - Exp(small))) # 0 >>

AddMagV(sign, big, a) ==
    Normalize(sign, Man(big) * 8 + a[1], Exp(big) - 3, a[2])

AddMag(sign, big, small) ==
    CHOOSE r \in {AddMagV(sign, big, a) : a \in {AlignedSmall(big, small)}} : TRUE

SubMagV(sign, big, a) ==
    Normalize(sign, Man(big) * 8 - a[1] - (IF a[2] THEN 1 ELSE 0), Exp(big) - 3, a[2])

SubMag(sign, big, small) ==
    CHOOSE r \in {SubMagV(sign, big, a) : a \in {AlignedSmall(big, small)}} : TRUE

FNeg(x) == IF IsZero(x) THEN x ELSE <<0 - Sgn(x), Man(x), Exp(x)>>

FAddV(x, y) ==
    IF IsZero(x) THEN y
    ELSE IF IsZero(y) THEN x
    ELSE IF Sgn(x) = Sgn(y)
         THEN IF MagGeq(x, y) THEN AddMag(Sgn(x), x, y) ELSE AddMag(Sgn(x), y, x)
         ELSE IF MagGeq(x, y) THEN SubMag(Sgn(x), x, y) ELSE SubMag(Sgn(y), y, x)

FAdd(x0, y0) == CHOOSE r \in {FAddV(x, y) : x \in {x0}, y \in {y0}} : TRUE

FSub(x0, y0) == CHOOSE r \in {FAddV(x, FNeg(y)) : x \in {x0}, y \in {y0}} : TRUE

\* 24 x 24 bit product through 12-bit limbs: m1 * m2 = hi * 2^24 + lo.
\* p = <<a1*a2, a1*b2 + a2*b1, b1*b2>> are the limb products.
MulLimbs(x, y) ==
    << (Man(x) \div 4096) * (Man(y) \div 4096),
       (Man(x) \div 4096) * (Man(y) % 4096) + (Man(y) \div 4096) * (Man(x) % 4096),
       (Man(x) % 4096) * (Man(y) % 4096) >>

\* <<hi, lo>> of the product from its limb products.
MulHiLo(p) ==
    << p[1] + (p[2] \div 4096) + ((p[3] + (p[2] % 4096) * 4096) \div Pow2(24)),
       (p[3] + (p[2] % 4096) * 4096) % Pow2(24) >>

\* Round hi * 2^24 + lo to 24 bits; s and E are the sign and the exponent sum.
MulRound(s, E, hl) ==
    IF hl[1] >= Pow2(23)
    THEN Normalize(s, hl[1] * 2 + (IF hl[2] >= Pow2(23) THEN 1 ELSE 0),
                   E + 23, hl[2] % Pow2(23) # 0)
    ELSE Normalize(s, hl[1] * 4 + (hl[2] \div Pow2(22)),
                   E + 22, hl[2] % Pow2(22) # 0)

FMulV(x, y) ==
    IF IsZero(x) \/ IsZero(y) THEN F32Zero
    ELSE CHOOSE r \in {MulRound(Sgn(x) * Sgn(y), Exp(x) + Exp(y), hl) :
                         hl \in {MulHiLo(p) : p \in {MulLimbs(x, y)}}} : TRUE

FMul(x0, y0) == CHOOSE r \in {FMulV(x, y) : x \in {x0}, y \in {y0}} : TRUE

\* One step of long division: qr = <<quotient, remainder>> so far, the next
\* `bits` quotient bits are produced (remainder < d < 2^24, bits <= 7).
DivStep(qr0, d, bits) ==
    CHOOSE r \in { << qr[1] * Pow2(bits) + (qr[2] * Pow2(bits)) \div d,
                      (qr[2] * Pow2(bits)) % d >> : qr \in {qr0} } : TRUE

\* <<floor(m1 * 2^26 / m2), remainder>>
DivBits(m1, m2) ==
    DivStep(DivStep(DivStep(DivStep(<<m1 \div m2, m1 % m2>>, m2, 7), m2, 7), m2, 6), m2, 6)

FDivV(x, y, qr) ==
    Normalize(Sgn(x) * Sgn(y), qr[1], Exp(x) - Exp(y) - 26, qr[2] # 0)

FDiv(x0, y0) ==
    CHOOSE r \in { IF IsZero(x) THEN F32Zero
                   ELSE CHOOSE q \in {FDivV(x, y, qr) : qr \in {DivBits(Man(x), Man(y))}} : TRUE
                   : x \in {x0}, y \in {y0} } : TRUE

\* `n as f32` for 0 <= n < 2^24 (exact).
FromInt(n) == Normalize(1, n, 0, FALSE)

F32One == FromInt(1)

\* x <= y (zero always carries sign 1).
FLeqV(x, y) ==
    IF Sgn(x) = 1 /\ Sgn(y) = 1 THEN MagGeq(y, x)
    ELSE IF Sgn(x) = -1 /\ Sgn(y) = -1 THEN MagGeq(x, y)
    ELSE Sgn(x) = -1

FLeq(x0, y0) == CHOOSE r \in {FLeqV(x, y) : x \in {x0}, y \in {y0}} : TRUE

\* f32::clamp(lo, hi)
FClamp(x0, lo, hi) ==
    CHOOSE r \in { IF ~FLeqV(lo, x) THEN lo ELSE IF ~FLeqV(x, hi) THEN hi ELSE x
                   : x \in {x0} } : TRUE

\* `x as uN`: truncation toward zero, saturating at 0 and max.
FTruncV(x, max) ==
    IF IsZero(x) \/ Sgn(x) = -1 THEN 0
    ELSE IF Exp(x) >= 0 THEN max
    ELSE IF 0 - Exp(x) > 30 THEN 0
    ELSE IF Man(x) \div Pow2(0 - Exp(x)) > max THEN max
    ELSE Man(x) \div Pow2(0 - Exp(x))

FTrunc(x0, max) == CHOOSE r \in {FTruncV(x, max) : x \in {x0}} : TRUE

(***************************************************************************)
(* ----------------------  color_manager.rs (pure)  ---------------------- *)
(***************************************************************************)

\* openrgb::data::Color is <<r, g, b>>, each channel a u8.
U8Max == 255

\* (1.0 - value) * start + value * end
lerp(value0, start, end) ==
    CHOOSE r \in { FAdd(FMul(FSub(F32One, value), start), FMul(value, end))
                   : value \in {value0} } : TRUE

lerp_color(value0, start_color, end_color) ==
    CHOOSE c \in
        { << FTrunc(lerp(value, FromInt(start_color[1]), FromInt(end_color[1])), U8Max),
             FTrunc(lerp(value, FromInt(start_color[2]), FromInt(end_color[2])), U8Max),
             FTrunc(lerp(value, FromInt(start_color[3]), FromInt(end_color[3])), U8Max) >>
          : value \in {value0} } : TRUE

\* let value = value * size as f32;
gradient_scaled(value, size) == FMul(value, FromInt(size))

\* Mutant of gradient_factor: the index is added instead of subtracted.
gradient_factor_plus(v, index) ==
    FClamp(FAdd(v, FromInt(index)), F32Zero, F32One)

\* Mutant of gradient_factor: the closure counts LEDs from 1.
gradient_factor_from_one(v, index) ==
    FClamp(FSub(v, FromInt(index + 1)), F32Zero, F32One)

\* The closure of the map: (value - index as f32).clamp(0.0, 1.0), index 0-based.
gradient_factor(v, index) ==
    FClamp(FSub(v, FromInt(index)), F32Zero, F32One)

\* The factors of all LEDs, in LED order.
gradient_factors(value, size) ==
    CHOOSE fs \in { [i \in 1..size |-> gradient_factor(v, i - 1)]
                    : v \in {gradient_scaled(value, size)} } : TRUE

generate_gradient_led_colors(value, start_color, end_color, size) ==
    CHOOSE leds \in
        { [i \in 1..size |-> lerp_color(fs[i], start_color, end_color)]
          : fs \in {gradient_factors(value, size)} } : TRUE

generate_block_led_colors(value, start_color, end_color, size) ==
    [i \in 1..size |-> lerp_color(value, start_color, end_color)]

\* One zone of the "X570 AORUS ELITE" controller.  The result is the zone's
\* colours, or a panic: an unknown zone name hits panic!("Unknown zone!"), and
\* a "Motherboard" zone without LEDs computes 0usize - 1 (overflow panic in a
\* debug build, a usize::MAX-element Vec -> capacity-overflow panic otherwise).
zone_colors(zone, cpu_usage, start_color, end_color) ==
    IF zone.name = "D_LED1 Bottom"
    THEN [panic |-> FALSE,
          colors |-> generate_block_led_colors(cpu_usage, start_color, end_color,
                                               zone.leds_count)]
    ELSE IF zone.name = "D_LED2 Top"
    THEN [panic |-> FALSE,
          colors |-> generate_gradient_led_colors(cpu_usage, start_color, end_color,
                                                  zone.leds_count)]
    ELSE IF zone.name = "Motherboard"
    THEN IF zone.leds_count = 0
         THEN [panic |-> TRUE, colors |-> <<>>]
         ELSE [panic |-> FALSE,
               colors |-> generate_block_led_colors(cpu_usage, start_color, end_color, 1)
                          \o generate_block_led_colors(cpu_usage, start_color, end_color,
                                                       zone.leds_count - 1)]
    ELSE [panic |-> TRUE, colors |-> <<>>]

\* controller.zones.iter().flat_map(..).collect()
RECURSIVE flat_map_zones(_, _, _, _)
flat_map_zones(zones, cpu_usage, start_color, end_color) ==
    IF zones = <<>> THEN [panic |-> FALSE, colors |-> <<>>]
    ELSE CHOOSE r \in
           { IF h.panic \/ t.panic THEN [panic |-> TRUE, colors |-> <<>>]
             ELSE [panic |-> FALSE, colors |-> h.colors \o t.colors]
             : h \in {zone_colors(Head(zones), cpu_usage, start_color, end_color)},
               t \in {flat_map_zones(Tail(zones), cpu_usage, start_color, end_color)} }
           : TRUE

\* Mutant of controller_colors: the discrete-GPU arm is missing, so that
\* controller falls into the default arm (CPU load).
controller_colors_no_gpu_arm(controller, cpu_usage, gpu_usage, start_color, end_color) ==
    IF controller.name = "ENE DRAM"
    THEN [panic |-> FALSE,
          colors |-> generate_gradient_led_colors(FSub(F32One, cpu_usage), end_color,
                                                  start_color, controller.leds)]
    ELSE IF controller.name = "X570 AORUS ELITE"
    THEN flat_map_zones(controller.zones, cpu_usage, start_color, end_color)
    ELSE [panic |-> FALSE,
          colors |-> generate_block_led_colors(cpu_usage, start_color, end_color,
                                               controller.leds)]

\* Mutant of controller_colors: the memory-module arm uses the CPU load as it
\* is, with the endpoints in the default order.
controller_colors_dram_plain(controller, cpu_usage, gpu_usage, start_color, end_color) ==
    IF controller.name = "ENE DRAM"
    THEN [panic |-> FALSE,
          colors |-> generate_gradient_led_colors(cpu_usage, start_color,
                                                  end_color, controller.leds)]
    ELSE IF controller.name = "EVGA GeForce RTX 3080Ti FTW3 Ultra"
    THEN [panic |-> FALSE,
          colors |-> generate_block_led_colors(gpu_usage, start_color, end_color,
                                               controller.leds)]
    ELSE IF controller.name = "X570 AORUS ELITE"
    THEN flat_map_zones(controller.zones, cpu_usage, start_color, end_color)
    ELSE [panic |-> FALSE,
          colors |-> generate_block_led_colors(cpu_usage, start_color, end_color,
                                               controller.leds)]

\* The match on controller.name in set_all_light_color.
controller_colors(controller, cpu_usage, gpu_usage, start_color, end_color) ==
    IF controller.name = "ENE DRAM"
    THEN [panic |-> FALSE,
          colors |-> generate_gradient_led_colors(FSub(F32One, cpu_usage), end_color,
                                                  start_color, controller.leds)]
    ELSE IF controller.name = "EVGA GeForce RTX 3080Ti FTW3 Ultra"
    THEN [panic |-> FALSE,
          colors |-> generate_block_led_colors(gpu_usage, start_color, end_color,
                                               controller.leds)]
    ELSE IF controller.name = "X570 AORUS ELITE"
    THEN flat_map_zones(controller.zones, cpu_usage, start_color, end_color)
    ELSE [panic |-> FALSE,
          colors |-> generate_block_led_colors(cpu_usage, start_color, end_color,
                                               controller.leds)]

\* The values passed to lerp_color while the colours of one zone of
\* "X570 AORUS ELITE" are computed (none when the arm panics first).
zone_factors(zone, cpu_usage) ==
    IF zone.name = "D_LED1 Bottom" THEN {cpu_usage}
    ELSE IF zone.name = "D_LED2 Top"
    THEN {gradient_factors(cpu_usage, zone.leds_count)[i] : i \in 1..zone.leds_count}
    ELSE IF zone.name = "Motherboard" THEN {cpu_usage}
    ELSE {}

\* The values passed to lerp_color by the match on controller.name: a block
\* calls lerp_color once with its value, a gradient once per LED with the
\* clamped factor of that LED.
controller_factors(controller, cpu_usage, gpu_usage) ==
    IF controller.name = "ENE DRAM"
    THEN {gradient_factors(FSub(F32One, cpu_usage), controller.leds)[i] :
            i \in 1..controller.leds}
    ELSE IF controller.name = "EVGA GeForce RTX 3080Ti FTW3 Ultra"
    THEN {gpu_usage}
    ELSE IF controller.name = "X570 AORUS ELITE"
    THEN UNION {zone_factors(controller.zones[i], cpu_usage) :
                  i \in 1..Len(controller.zones)}
    ELSE {cpu_usage}

\* Color::new(0xFF, 0xFF, 0xFF) and Color::new(0xFF, 0x0, 0x0) in sample_and_set.
StartColor == <<255, 255, 255>>
EndColor   == <<255, 0, 0>>

(***************************************************************************)
(* ------------------------  sample buffers  ----------------------------- *)
(***************************************************************************)

SAMPLE_TIME == FromInt(5)
SAMPLE_RATE == 500

\* (SAMPLE_TIME * (1.0 + 1.0 / SAMPLE_RATE as f32)) as usize
SAMPLE_BUFFER_SIZE ==
    FTrunc(FMul(SAMPLE_TIME, FAdd(F32One, FDiv(F32One, FromInt(SAMPLE_RATE)))),
           Pow2(23))

\* Bitwise OR of two non-negative integers (the |= of next_power_of_two).
RECURSIVE BitOr(_, _)
BitOr(a, b) ==
    IF a = 0 THEN b
    ELSE IF b = 0 THEN a
    ELSE (IF a % 2 = 1 \/ b % 2 = 1 THEN 1 ELSE 0) + 2 * BitOr(a \div 2, b \div 2)

\* value |= value >> k
OrShift(value0, k) ==
    CHOOSE r \in {BitOr(value, value \div Pow2(k)) : value \in {value0}} : TRUE

next_power_of_two(value) ==
    OrShift(OrShift(OrShift(OrShift(OrShift(value - 1, 1), 2), 4), 8), 16) + 1

sample_buffer_size == next_power_of_two(SAMPLE_BUFFER_SIZE)

\* AllocRingBuffer::with_capacity(capacity): slots 0..capacity-1, a read and a
\* write pointer that only grow; the slot of pointer p is p % capacity.
with_capacity(capacity) ==
    [buf |-> [i \in 0..(capacity - 1) |-> F32Zero],
     capacity |-> capacity, readptr |-> 0, writeptr |-> 0]

rb_len(rb) == rb.writeptr - rb.readptr

\* Mutant of push: a full buffer keeps its oldest element.
push_no_evict(rb, value) ==
    [rb EXCEPT !.buf[rb.writeptr % rb.capacity] = value,
               !.writeptr = rb.writeptr + 1]

\* RingBufferWrite::push: a full buffer drops its oldest element first.
push(rb, value) ==
    LET rd == IF rb_len(rb) = rb.capacity THEN rb.readptr + 1 ELSE rb.readptr
    IN  [rb EXCEPT !.buf[rb.writeptr % rb.capacity] = value,
                   !.readptr = rd,
                   !.writeptr = rb.writeptr + 1]

\* RingBufferExt::iter: oldest to newest.
rb_iter(rb) == [i \in 1..rb_len(rb) |-> rb.buf[(rb.readptr + i - 1) % rb.capacity]]

\* .reduce(|accum, sample| accum + sample).unwrap_or_default()
\* reduce_upto(samples, n) folds the first n samples, left to right.
RECURSIVE reduce_upto(_, _)
reduce_upto(samples, n) ==
    IF n = 0 THEN F32Zero
    ELSE IF n = 1 THEN samples[1]
    ELSE FAdd(reduce_upto(samples, n - 1), samples[n])

reduce_sum(samples0) ==
    CHOOSE r \in {reduce_upto(samples, Len(samples)) : samples \in {samples0}} : TRUE

\* 0.0 / 0.0
F32NaN == <<0, 0, 0>>

\* Mutant of smoothed: the sum is not divided by the number of samples.
smoothed_sum(rb) ==
    IF rb_len(rb) = 0 THEN F32Zero
    ELSE reduce_sum(rb_iter(rb))

\* sum / samples.len() as f32
smoothed(rb) ==
    IF rb_len(rb) = 0 THEN F32NaN
    ELSE FDiv(reduce_sum(rb_iter(rb)), FromInt(rb_len(rb)))


(***************************************************************************)
(* ---------------------------  bounds and inputs  ----------------------- *)
(***************************************************************************)

MaxFailures    == 2     \* failed connect attempts explored
MaxCycles      == 2     \* sampling cycles explored by Spec
MaxControllers == 2     \* largest controller count the server reports

\* Duration::from_secs(1) of the connect backoff and of the stop handler's
\* grace sleep, in milliseconds.
BACKOFF_MS == 1000
GRACE_MS   == 1000

Percent(k) == FDiv(FromInt(k), FromInt(100))

\* duration.non_idle() as f32, and utilization.gpu (a percentage)
CpuSamples  == {Percent(40)}
GpuPercents == {4}

Zone(n, k) == [name |-> n, leds_count |-> k]

Controllers ==
    { [name |-> "ENE DRAM", leds |-> 2, zones |-> <<>>],
      [name |-> "EVGA GeForce RTX 3080Ti FTW3 Ultra", leds |-> 2, zones |-> <<>>],
      [name |-> "X570 AORUS ELITE", leds |-> 3,
       zones |-> <<Zone("D_LED1 Bottom", 1), Zone("D_LED2 Top", 2)>>],
      [name |-> "X570 AORUS ELITE", leds |-> 2,
       zones |-> <<Zone("Motherboard", 2)>>],
      [name |-> "X570 AORUS ELITE", leds |-> 2,
       zones |-> <<Zone("D_LED1 Bottom", 1), Zone("Unknown", 1)>>],
      [name |-> "Other", leds |-> 1, zones |-> <<>>] }

NoController == [name |-> "", leds |-> 0, zones |-> <<>>]

(***************************************************************************)
(* ------------------------------  state  -------------------------------- *)
(***************************************************************************)

VARIABLES
    mode,             \* "service" (launch_client(Some(signal))) or "interactive"
    pc,               \* position of the control loop inside launch_client
    result,           \* "none", or what launch_client returned: "Ok" / "Err"
    failed_at,        \* "none", or the step whose `?` produced the Err
    proc,             \* "running", "exited" or "aborted" (panic)
    exit_code,        \* process exit status once proc # "running"
    service_status,   \* <<current_state, exit_code>> last reported to the service manager
    should_shutdown,  \* ShutdownSignal.should_shutdown
    armed,            \* a Notified future of the current select! exists
    woken,            \* ... and notify_waiters() has fired it
    sel,              \* branch that completed the last select!: "none", "op", "stop"
    hpc,              \* stop handler: "idle", "stored", "grace", "done"
    timer,            \* ms left of the loop's current sleep
    htimer,           \* ms left of the handler's grace sleep
    client,           \* OpenRGB::connect() has succeeded
    failures,         \* failed connect attempts so far
    connects,         \* connect attempts started
    cycles,           \* sample_and_set calls started
    cpu_samples, gpu_samples,     \* the two AllocRingBuffers
    cpu_history, gpu_history,     \* every sample pushed since allocation
    cpu_usage, gpu_usage,         \* smoothed values of the current cycle
    controller_count, controller_id, controller, colors,
    writes,           \* update_leds calls issued
    lerp_in, lerp_out \* argument / result of a stand-alone lerp_color call

loopVars   == <<pc, result, failed_at, armed, woken, sel, timer, client, failures, connects, cycles>>
sampleVars == <<cpu_samples, gpu_samples, cpu_history, gpu_history, cpu_usage, gpu_usage>>
ioVars     == <<controller_count, controller_id, controller, colors, writes>>
procVars   == <<proc, exit_code, service_status>>
stopVars   == <<should_shutdown, hpc, htimer>>
lerpVars   == <<lerp_in, lerp_out>>

vars == <<mode, loopVars, sampleVars, ioVars, procVars, stopVars, lerpVars>>

NoBuffer == with_capacity(0)

InitCommon ==
    /\ result = "none"
    /\ failed_at = "none"
    /\ proc = "running"
    /\ exit_code = 0
    /\ should_shutdown = FALSE
    /\ armed = FALSE
    /\ woken = FALSE
    /\ sel = "none"
    /\ hpc = "idle"
    /\ timer = 0
    /\ htimer = 0
    /\ failures = 0
    /\ connects = 0
    /\ cycles = 0
    /\ cpu_history = <<>>
    /\ gpu_history = <<>>
    /\ cpu_usage = F32Zero
    /\ gpu_usage = F32Zero
    /\ controller_count = 0
    /\ controller_id = 0
    /\ controller = NoController
    /\ colors = <<>>
    /\ writes = 0

\* Entry of launch_client: from main (interactive) or from my_service_main
\* after the Running status has been reported.
Init ==
    /\ InitCommon
    /\ mode \in {"service", "interactive"}
    /\ service_status = IF mode = "service" THEN <<"Running", 0>> ELSE <<"none", 0>>
    /\ pc = "connect_top"
    /\ client = FALSE
    /\ cpu_samples = NoBuffer
    /\ gpu_samples = NoBuffer
    /\ lerp_in = <<>>
    /\ lerp_out = <<>>

Alive == proc = "running" /\ result = "none"


InService == mode = "service"

(***************************************************************************)
(* -----------------  launch_client: the connect loop  ------------------- *)
(***************************************************************************)

\* Mutant of ConnectTop: the connect loop does not look at should_shutdown.
ConnectTopNoCheck ==
    /\ Alive /\ pc = "connect_top"
    /\ pc' = "connect_sel"
    /\ UNCHANGED <<mode, failed_at, result, armed, woken, sel, timer, client, failures,
                   connects, cycles, sampleVars, ioVars, procVars, stopVars, lerpVars>>

\* Top of `let client = loop { .. }`: the should_shutdown check of service mode.
ConnectTop ==
    /\ Alive /\ pc = "connect_top"
    /\ IF InService /\ should_shutdown
       THEN pc' = "returned" /\ result' = "Ok"
       ELSE pc' = "connect_sel" /\ result' = result
    /\ UNCHANGED <<mode, failed_at, armed, woken, sel, timer, client, failures, connects, cycles,
                   sampleVars, ioVars, procVars, stopVars, lerpVars>>

\* select! { notified() => continue, OpenRGB::connect() => .. } in service
\* mode, OpenRGB::connect().await otherwise: the futures are created here.
BeginConnect ==
    /\ Alive /\ pc = "connect_sel"
    /\ pc' = "connecting"
    /\ connects' = connects + 1
    /\ armed' = InService
    /\ woken' = FALSE
    /\ UNCHANGED <<mode, failed_at, result, sel, timer, client, failures, cycles,
                   sampleVars, ioVars, procVars, stopVars, lerpVars>>

ConnectOk ==
    /\ Alive /\ pc = "connecting"
    /\ pc' = "init"
    /\ client' = TRUE
    /\ armed' = FALSE
    /\ woken' = FALSE
    /\ sel' = IF InService THEN "op" ELSE sel
    /\ UNCHANGED <<mode, failed_at, result, timer, failures, connects, cycles,
                   sampleVars, ioVars, procVars, stopVars, lerpVars>>

\* Mutant of ConnectFail: the backoff grows with the number of failures.
ConnectFailGrowing ==
    /\ Alive /\ pc = "connecting"
    /\ failures < MaxFailures
    /\ pc' = "backoff"
    /\ failures' = failures + 1
    /\ timer' = BACKOFF_MS * (failures + 1)
    /\ armed' = FALSE
    /\ woken' = FALSE
    /\ sel' = IF InService THEN "op" ELSE sel
    /\ UNCHANGED <<mode, failed_at, result, client, connects, cycles,
                   sampleVars, ioVars, procVars, stopVars, lerpVars>>

\* warn!(..); tokio::time::sleep(Duration::from_secs(1)).await
ConnectFail ==
    /\ Alive /\ pc = "connecting"
    /\ failures < MaxFailures
    /\ pc' = "backoff"
    /\ failures' = failures + 1
    /\ timer' = BACKOFF_MS
    /\ armed' = FALSE
    /\ woken' = FALSE
    /\ sel' = IF InService THEN "op" ELSE sel
    /\ UNCHANGED <<mode, failed_at, result, client, connects, cycles,
                   sampleVars, ioVars, procVars, stopVars, lerpVars>>

BackoffDone ==
    /\ Alive /\ pc = "backoff" /\ timer = 0
    /\ pc' = "connect_top"
    /\ UNCHANGED <<mode, failed_at, result, armed, woken, sel, timer, client, failures, connects,
                   cycles, sampleVars, ioVars, procVars, stopVars, lerpVars>>

\* The points at which the future raced by select! can be pending.
SuspensionPoints ==
    {"connecting", "cpu_start", "get_count", "get_controller", "update_leds", "yield"}

\* The notified() branch completes the select!: the other future is dropped
\* and the loop `continue`s.
StopWins ==
    /\ Alive /\ pc \in SuspensionPoints
    /\ armed /\ woken
    /\ sel' = "stop"
    /\ armed' = FALSE
    /\ woken' = FALSE
    /\ pc' = IF pc = "connecting" THEN "connect_top" ELSE "cycle_top"
    /\ UNCHANGED <<mode, failed_at, result, timer, client, failures, connects, cycles,
                   sampleVars, ioVars, procVars, stopVars, lerpVars>>

\* Nvml::init()?, device_by_index(0)?, and the two AllocRingBuffers.
InitGpu ==
    /\ Alive /\ pc = "init"
    /\ \E ok \in BOOLEAN :
         IF ok
         THEN /\ pc' = "cycle_top"
              /\ result' = result
              /\ failed_at' = failed_at
              /\ cpu_samples' = with_capacity(sample_buffer_size)
              /\ gpu_samples' = with_capacity(sample_buffer_size)
              /\ cpu_history' = <<>>
              /\ gpu_history' = <<>>
         ELSE /\ pc' = "returned"
              /\ result' = "Err"
              /\ failed_at' = "init"
              /\ UNCHANGED <<cpu_samples, gpu_samples, cpu_history, gpu_history>>
    /\ UNCHANGED <<mode, armed, woken, sel, timer, client, failures, connects, cycles,
                   cpu_usage, gpu_usage, ioVars, procVars, stopVars, lerpVars>>

(***************************************************************************)
(* ----------------  launch_client: the sampling loop  ------------------- *)
(***************************************************************************)

\* Mutant of CycleTop: the loop does not look at should_shutdown.
CycleTopNoCheck ==
    /\ Alive /\ pc = "cycle_top"
    /\ pc' = "cycle_sel"
    /\ UNCHANGED <<mode, failed_at, result, armed, woken, sel, timer, client, failures,
                   connects, cycles, sampleVars, ioVars, procVars, stopVars, lerpVars>>

CycleTop ==
    /\ Alive /\ pc = "cycle_top"
    /\ IF InService /\ should_shutdown
       THEN pc' = "returned" /\ result' = "Ok"
       ELSE pc' = "cycle_sel" /\ result' = result
    /\ UNCHANGED <<mode, failed_at, armed, woken, sel, timer, client, failures, connects, cycles,
                   sampleVars, ioVars, procVars, stopVars, lerpVars>>

BeginCycle(maxCycles) ==
    /\ Alive /\ pc = "cycle_sel"
    /\ cycles < maxCycles
    /\ pc' = "cpu_start"
    /\ cycles' = cycles + 1
    /\ armed' = InService
    /\ woken' = FALSE
    /\ UNCHANGED <<mode, failed_at, result, sel, timer, client, failures, connects,
                   sampleVars, ioVars, procVars, stopVars, lerpVars>>

\* Mutant of CycleFailed: the error sends the loop back to the connect loop.
CycleFailedReconnect ==
    /\ pc' = "connect_top"
    /\ result' = result
    /\ failed_at' = pc
    /\ armed' = FALSE
    /\ woken' = FALSE
    /\ sel' = IF InService THEN "op" ELSE sel

\* sample_and_set returned Err: bail!("Failed to sample and set: ..")
CycleFailed ==
    /\ pc' = "returned"
    /\ result' = "Err"
    /\ failed_at' = pc
    /\ armed' = FALSE
    /\ woken' = FALSE
    /\ sel' = IF InService THEN "op" ELSE sel

\* let start = CpuInstant::now()?; then std::thread::sleep begins.
CpuStart ==
    /\ Alive /\ pc = "cpu_start"
    /\ \E ok \in BOOLEAN :
         IF ok
         THEN /\ pc' = "cpu_sleep"
              /\ timer' = SAMPLE_RATE
              /\ UNCHANGED <<result, failed_at, armed, woken, sel>>
         ELSE CycleFailed /\ timer' = timer
    /\ UNCHANGED <<mode, client, failures, connects, cycles,
                   sampleVars, ioVars, procVars, stopVars, lerpVars>>

CpuSleepDone ==
    /\ Alive /\ pc = "cpu_sleep" /\ timer = 0
    /\ pc' = "cpu_end"
    /\ UNCHANGED <<mode, failed_at, result, armed, woken, sel, timer, client, failures, connects,
                   cycles, sampleVars, ioVars, procVars, stopVars, lerpVars>>

\* Mutant of CpuEnd: the CPU sample is kept aside instead of being pushed
\* before the GPU is sampled.
CpuEndDeferredPush(samples) ==
    /\ Alive /\ pc = "cpu_end"
    /\ \/ \E sample \in samples :
            /\ cpu_usage' = sample
            /\ pc' = "gpu"
            /\ UNCHANGED <<cpu_samples, cpu_history, result, failed_at, armed, woken, sel>>
       \/ /\ CycleFailed
          /\ UNCHANGED <<cpu_samples, cpu_history, cpu_usage>>
    /\ UNCHANGED <<mode, timer, client, failures, connects, cycles,
                   gpu_samples, gpu_history, gpu_usage,
                   ioVars, procVars, stopVars, lerpVars>>

\* let end = CpuInstant::now()?; push the sample; average the buffer.
CpuEnd(samples) ==
    /\ Alive /\ pc = "cpu_end"
    /\ \/ \E sample \in samples :
            /\ cpu_samples' = push(cpu_samples, sample)
            /\ cpu_history' = Append(cpu_history, sample)
            /\ cpu_usage' = smoothed(cpu_samples')
            /\ pc' = "gpu"
            /\ UNCHANGED <<result, failed_at, armed, woken, sel>>
       \/ /\ CycleFailed
          /\ UNCHANGED <<cpu_samples, cpu_history, cpu_usage>>
    /\ UNCHANGED <<mode, timer, client, failures, connects, cycles,
                   gpu_samples, gpu_history, gpu_usage,
                   ioVars, procVars, stopVars, lerpVars>>

\* device.utilization_rates()?; push gpu / 100.0; average the buffer.
GpuSample(percents) ==
    /\ Alive /\ pc = "gpu"
    /\ \/ \E gpu \in percents :
            LET sample == FDiv(FromInt(gpu), FromInt(100))
            IN  /\ gpu_samples' = push(gpu_samples, sample)
                /\ gpu_history' = Append(gpu_history, sample)
                /\ gpu_usage' = smoothed(gpu_samples')
                /\ pc' = "get_count"
                /\ UNCHANGED <<result, failed_at, armed, woken, sel>>
       \/ /\ CycleFailed
          /\ UNCHANGED <<gpu_samples, gpu_history, gpu_usage>>
    /\ UNCHANGED <<mode, timer, client, failures, connects, cycles,
                   cpu_samples, cpu_history, cpu_usage,
                   ioVars, procVars, stopVars, lerpVars>>

(***************************************************************************)
(* ------------------------  set_all_light_color  ------------------------ *)
(***************************************************************************)

\* client.get_controller_count().await?
GetControllerCount(maxControllers) ==
    /\ Alive /\ pc = "get_count"
    /\ \/ \E n \in 0..maxControllers :
            /\ controller_count' = n
            /\ controller_id' = 0
            /\ pc' = IF n = 0 THEN "yield" ELSE "get_controller"
            /\ UNCHANGED <<result, failed_at, armed, woken, sel>>
       \/ /\ CycleFailed
          /\ UNCHANGED <<controller_count, controller_id>>
    /\ UNCHANGED <<mode, timer, client, failures, connects, cycles, sampleVars,
                   controller, colors, writes, procVars, stopVars, lerpVars>>

\* client.get_controller(controller_id).await? and the colour computation.
GetController ==
    /\ Alive /\ pc = "get_controller"
    /\ \/ \E c \in Controllers :
            LET r == controller_colors(c, cpu_usage, gpu_usage, StartColor, EndColor)
            IN  /\ controller' = c
                /\ IF r.panic
                   THEN /\ pc' = "panicked"
                        /\ proc' = "aborted"
                        /\ exit_code' = 101
                        /\ colors' = colors
                   ELSE /\ pc' = "update_leds"
                        /\ colors' = r.colors
                        /\ UNCHANGED <<proc, exit_code>>
                /\ UNCHANGED <<result, failed_at, armed, woken, sel>>
       \/ /\ CycleFailed
          /\ UNCHANGED <<controller, colors, proc, exit_code>>
    /\ UNCHANGED <<mode, timer, client, failures, connects, cycles, sampleVars,
                   controller_count, controller_id, writes, service_status,
                   stopVars, lerpVars>>

\* client.update_leds(controller_id, colors.clone()).await?
UpdateLeds ==
    /\ Alive /\ pc = "update_leds"
    /\ writes' = writes + 1
    /\ \/ /\ controller_id' = controller_id + 1
          /\ pc' = IF controller_id + 1 < controller_count
                   THEN "get_controller" ELSE "yield"
          /\ UNCHANGED <<result, failed_at, armed, woken, sel>>
       \/ /\ CycleFailed
          /\ controller_id' = controller_id
    /\ UNCHANGED <<mode, timer, client, failures, connects, cycles, sampleVars,
                   controller_count, controller, colors, procVars, stopVars, lerpVars>>

\* Mutant of Yield: the should_shutdown check stands before the loop, so the
\* next iteration goes straight to the select!.
YieldSkipsCheck ==
    /\ Alive /\ pc = "yield"
    /\ pc' = "cycle_sel"
    /\ armed' = FALSE
    /\ woken' = FALSE
    /\ sel' = IF InService THEN "op" ELSE sel
    /\ UNCHANGED <<mode, failed_at, result, timer, client, failures, connects, cycles,
                   sampleVars, ioVars, procVars, stopVars, lerpVars>>

\* info!(..); tokio::task::yield_now().await; Ok(())
Yield ==
    /\ Alive /\ pc = "yield"
    /\ pc' = "cycle_top"
    /\ armed' = FALSE
    /\ woken' = FALSE
    /\ sel' = IF InService THEN "op" ELSE sel
    /\ UNCHANGED <<mode, failed_at, result, timer, client, failures, connects, cycles,
                   sampleVars, ioVars, procVars, stopVars, lerpVars>>

(***************************************************************************)
(* ------------------  callers of launch_client  ------------------------- *)
(***************************************************************************)

\* Mutant of ServiceAfterReturn: the Err arm falls through to the Stopped
\* report like the Ok arm does.
ServiceAfterReturnStopped ==
    /\ InService /\ proc = "running" /\ pc = "returned"
    /\ proc' = "exited"
    /\ IF result = "Ok"
       THEN service_status' = <<"Stopped", 0>> /\ exit_code' = 0
       ELSE service_status' = <<"Stopped", 1>> /\ exit_code' = 0
    /\ UNCHANGED <<mode, loopVars, sampleVars, ioVars, stopVars, lerpVars>>

\* my_service_main: Ok -> report Stopped with exit code 0; Err -> exit(-1).
ServiceAfterReturn ==
    /\ InService /\ proc = "running" /\ pc = "returned"
    /\ proc' = "exited"
    /\ IF result = "Ok"
       THEN service_status' = <<"Stopped", 0>> /\ exit_code' = 0
       ELSE service_status' = service_status /\ exit_code' = -1
    /\ UNCHANGED <<mode, loopVars, sampleVars, ioVars, stopVars, lerpVars>>

\* main: launch_client(None).await? propagates the error out of main.
InteractiveAfterReturn ==
    /\ ~InService /\ proc = "running" /\ pc = "returned"
    /\ proc' = "exited"
    /\ exit_code' = IF result = "Ok" THEN 0 ELSE 1
    /\ UNCHANGED <<mode, loopVars, sampleVars, ioVars, service_status, stopVars, lerpVars>>

(***************************************************************************)
(* --------------  the ServiceControl::Stop event handler  --------------- *)
(***************************************************************************)

\* should_shutdown.store(true, Ordering::Relaxed)
HandlerStore ==
    /\ InService /\ proc = "running" /\ hpc = "idle"
    /\ should_shutdown' = TRUE
    /\ hpc' = "stored"
    /\ UNCHANGED <<mode, loopVars, sampleVars, ioVars, procVars, htimer, lerpVars>>

\* shutdown_notify.notify_waiters(): fires the Notified futures that exist
\* now and stores no permit; then thread::sleep(1 s) begins.
HandlerNotify ==
    /\ proc = "running" /\ hpc = "stored"
    /\ woken' = (armed \/ woken)
    /\ hpc' = "grace"
    /\ htimer' = GRACE_MS
    /\ UNCHANGED <<mode, failed_at, pc, result, armed, sel, timer, client, failures, connects,
                   cycles, sampleVars, ioVars, procVars, should_shutdown, lerpVars>>

HandlerDone ==
    /\ proc = "running" /\ hpc = "grace" /\ htimer = 0
    /\ hpc' = "done"
    /\ UNCHANGED <<mode, loopVars, sampleVars, ioVars, procVars,
                   should_shutdown, htimer, lerpVars>>

(***************************************************************************)
(* -------------------------------  time  -------------------------------- *)
(***************************************************************************)

LoopSleeping    == Alive /\ pc \in {"backoff", "cpu_sleep"}
HandlerSleeping == proc = "running" /\ hpc = "grace"

\* Steps that take no time: loop bookkeeping, an expired sleep, a select!
\* whose notified() branch is ready, and the callers' code after the return.
InstantPcs == {"connect_top", "connect_sel", "cycle_top", "cycle_sel", "yield", "returned"}

LoopUrgent ==
    /\ proc = "running"
    /\ \/ pc \in InstantPcs
       \/ LoopSleeping /\ timer = 0
       \/ armed /\ woken /\ pc \in SuspensionPoints

\* Time advances to the next expiry of a running sleep (tokio::time::sleep,
\* std::thread::sleep); it does not pass over a step that takes no time.
Tick ==
    /\ LoopSleeping \/ HandlerSleeping
    /\ ~LoopUrgent
    /\ hpc # "stored"
    /\ HandlerSleeping => htimer > 0
    /\ LET delta == IF ~LoopSleeping THEN htimer
                    ELSE IF ~HandlerSleeping THEN timer
                    ELSE IF timer < htimer THEN timer ELSE htimer
       IN  /\ timer' = IF LoopSleeping THEN timer - delta ELSE timer
           /\ htimer' = IF HandlerSleeping THEN htimer - delta ELSE htimer
    /\ UNCHANGED <<mode, failed_at, pc, result, armed, woken, sel, client, failures,
                   connects, cycles, sampleVars, ioVars, procVars, should_shutdown,
                   hpc, lerpVars>>

Next ==
    \/ ConnectTop \/ BeginConnect \/ ConnectOk \/ ConnectFail \/ BackoffDone
    \/ StopWins \/ InitGpu
    \/ CycleTop \/ BeginCycle(MaxCycles)
    \/ CpuStart \/ CpuSleepDone \/ CpuEnd(CpuSamples) \/ GpuSample(GpuPercents)
    \/ GetControllerCount(MaxControllers) \/ GetController \/ UpdateLeds \/ Yield
    \/ ServiceAfterReturn \/ InteractiveAfterReturn
    \/ HandlerStore \/ HandlerNotify \/ HandlerDone
    \/ Tick

Spec == Init /\ [][Next]_vars


(***************************************************************************)
(* ---------  the sampler alone: many cycles, no controllers  ------------ *)
(***************************************************************************)

MaxPushes == 9          \* cycles explored by SpecSampler (capacity + 1)

SamplerCpuSamples  == {Percent(10), Percent(40)}
SamplerGpuPercents == {4}

\* The state of interactive mode right after a successful connect and
\* initialisation: both buffers allocated and empty.
InitSampler ==
    /\ InitCommon
    /\ mode = "interactive"
    /\ service_status = <<"none", 0>>
    /\ pc = "cycle_top"
    /\ client = TRUE
    /\ cpu_samples = with_capacity(sample_buffer_size)
    /\ gpu_samples = with_capacity(sample_buffer_size)
    /\ lerp_in = <<>>
    /\ lerp_out = <<>>

NextSampler ==
    \/ CycleTop \/ BeginCycle(MaxPushes)
    \/ CpuStart \/ Tick \/ CpuSleepDone
    \/ CpuEnd(SamplerCpuSamples) \/ GpuSample(SamplerGpuPercents)
    \/ GetControllerCount(0) \/ Yield
    \/ InteractiveAfterReturn

SpecSampler == InitSampler /\ [][NextSampler]_vars

(***************************************************************************)
(* ------------------  lerp_color as a pure function  -------------------- *)
(***************************************************************************)

LerpValues == {F32Zero, Percent(4), Percent(48), Percent(50), F32One}
LerpColors == {<<255, 255, 255>>, <<255, 0, 0>>, <<0, 0, 0>>, <<3, 128, 251>>}

InitLerp ==
    /\ InitCommon
    /\ mode = "interactive"
    /\ service_status = <<"none", 0>>
    /\ pc = "lerp"
    /\ client = FALSE
    /\ cpu_samples = NoBuffer
    /\ gpu_samples = NoBuffer
    /\ lerp_in \in LerpValues \X LerpColors \X LerpColors
    /\ lerp_out = <<>>

ApplyLerp ==
    /\ pc = "lerp" /\ lerp_out = <<>>
    /\ lerp_out' = lerp_color(lerp_in[1], lerp_in[2], lerp_in[3])
    /\ UNCHANGED <<mode, loopVars, sampleVars, ioVars, procVars, stopVars, lerp_in>>

NextLerp == ApplyLerp

SpecLerp == InitLerp /\ [][NextLerp]_vars

(***************************************************************************)
(* -----  whole cycles with samples over the full range [0, 1]  ---------- *)
(***************************************************************************)

\* duration.non_idle() is a fraction of the interval, utilization.gpu a
\* percentage 0..100.  The server
\* reports at most one controller per cycle here.
UnitCpuSamples  == {F32Zero, F32One}
UnitGpuPercents == {0, 100}

NextCycles ==
    \/ CycleTop \/ BeginCycle(MaxCycles)
    \/ CpuStart \/ Tick \/ CpuSleepDone
    \/ CpuEnd(UnitCpuSamples) \/ GpuSample(UnitGpuPercents)
    \/ GetControllerCount(1) \/ GetController \/ UpdateLeds \/ Yield
    \/ InteractiveAfterReturn

\* From the state right after a successful connect and initialisation.
SpecCycles == InitSampler /\ [][NextCycles]_vars

(***************************************************************************)
(* ------  generate_gradient_led_colors / generate_block_led_colors  ----- *)
(***************************************************************************)

MaxLeds == 3            \* largest `size` explored by SpecGradient

\* -0.5 and 1.5 lie outside [0, 1].
GradientLoads ==
    {FNeg(Percent(50)), F32Zero, Percent(4), Percent(25), Percent(50), Percent(75),
     F32One, FDiv(FromInt(3), FromInt(2))}
GradientColors == {<<255, 255, 255>>, <<255, 0, 0>>, <<100, 100, 100>>, <<200, 200, 200>>}

\* lerp_in is <<value, start_color, end_color, size>>.
InitGradient ==
    /\ InitCommon
    /\ mode = "interactive"
    /\ service_status = <<"none", 0>>
    /\ pc = "colors"
    /\ client = FALSE
    /\ cpu_samples = NoBuffer
    /\ gpu_samples = NoBuffer
    /\ lerp_in \in GradientLoads \X GradientColors \X GradientColors \X (0..MaxLeds)
    /\ lerp_out = <<>>

\* One call of generate_gradient_led_colors; factors are the values the
\* closure passes to lerp_color.
ApplyGradient ==
    /\ pc = "colors"
    /\ pc' = "gradient_done"
    /\ lerp_out' = [factors |-> gradient_factors(lerp_in[1], lerp_in[4]),
                    leds |-> generate_gradient_led_colors(lerp_in[1], lerp_in[2],
                                                          lerp_in[3], lerp_in[4])]
    /\ UNCHANGED <<mode, result, failed_at, armed, woken, sel, timer, client, failures,
                   connects, cycles, sampleVars, ioVars, procVars, stopVars, lerp_in>>

\* One call of generate_block_led_colors.
ApplyBlock ==
    /\ pc = "colors"
    /\ pc' = "block_done"
    /\ lerp_out' = [leds |-> generate_block_led_colors(lerp_in[1], lerp_in[2],
                                                       lerp_in[3], lerp_in[4])]
    /\ UNCHANGED <<mode, result, failed_at, armed, woken, sel, timer, client, failures,
                   connects, cycles, sampleVars, ioVars, procVars, stopVars, lerp_in>>

NextGradient == ApplyGradient \/ ApplyBlock

SpecGradient == InitGradient /\ [][NextGradient]_vars

(***************************************************************************)
(* ---------  the match of set_all_light_color as a pure function  ------- *)
(***************************************************************************)

DispatchCpuLoads == {F32Zero, Percent(25), Percent(40), Percent(50), F32One}
DispatchGpuLoads == {F32Zero, Percent(50), F32One}

\* Zones an "X570 AORUS ELITE" can report under the names the match knows
\* (zone.leds_count is a u32, zero included); unknown names are in Controllers.
DispatchZones ==
    {Zone(n, k) : n \in {"D_LED1 Bottom", "D_LED2 Top", "Motherboard"}, k \in 0..MaxLeds}

DispatchZoneLists ==
    {<<z>> : z \in DispatchZones} \cup {<<y, z>> : y, z \in DispatchZones}

RECURSIVE zone_leds(_)
zone_leds(zones) ==
    IF zones = <<>> THEN 0 ELSE Head(zones).leds_count + zone_leds(Tail(zones))

DispatchControllers ==
    {[name |-> n, leds |-> k, zones |-> <<>>] :
        n \in {"ENE DRAM", "EVGA GeForce RTX 3080Ti FTW3 Ultra", "Other"}, k \in 0..MaxLeds}
    \cup {[name |-> "X570 AORUS ELITE", leds |-> zone_leds(zs), zones |-> zs] :
             zs \in DispatchZoneLists}

InitDispatch ==
    /\ result = "none"
    /\ failed_at = "none"
    /\ proc = "running"
    /\ exit_code = 0
    /\ should_shutdown = FALSE
    /\ armed = FALSE
    /\ woken = FALSE
    /\ sel = "none"
    /\ hpc = "idle"
    /\ timer = 0
    /\ htimer = 0
    /\ failures = 0
    /\ connects = 0
    /\ cycles = 0
    /\ cpu_history = <<>>
    /\ gpu_history = <<>>
    /\ cpu_usage \in DispatchCpuLoads
    /\ gpu_usage \in DispatchGpuLoads
    /\ controller_count = 1
    /\ controller_id = 0
    /\ controller \in DispatchControllers
    /\ colors = <<>>
    /\ writes = 0
    /\ mode = "interactive"
    /\ service_status = <<"none", 0>>
    /\ pc = "dispatch"
    /\ client = TRUE
    /\ cpu_samples = NoBuffer
    /\ gpu_samples = NoBuffer
    /\ lerp_in = <<>>
    /\ lerp_out = <<>>

\* let colors = match controller.name.as_str() { .. }; a panic of the match
\* aborts the process.
ApplyDispatch ==
    /\ pc = "dispatch"
    /\ LET r == controller_colors(controller, cpu_usage, gpu_usage, StartColor, EndColor)
       IN  IF r.panic
           THEN /\ pc' = "panicked"
                /\ proc' = "aborted"
                /\ exit_code' = 101
                /\ colors' = colors
           ELSE /\ pc' = "dispatched"
                /\ colors' = r.colors
                /\ UNCHANGED <<proc, exit_code>>
    /\ UNCHANGED <<mode, result, failed_at, armed, woken, sel, timer, client, failures,
                   connects, cycles, sampleVars, controller_count, controller_id,
                   controller, writes, service_status, stopVars, lerpVars>>

NextDispatch == ApplyDispatch

SpecDispatch == InitDispatch /\ [][NextDispatch]_vars

(***************************************************************************)
(* ------------------------------  claims  ------------------------------- *)
(***************************************************************************)

ConnectPcs == {"connect_top", "connect_sel", "connecting", "backoff"}
CyclePcs   == {"cpu_start", "cpu_sleep", "cpu_end", "gpu",
               "get_count", "get_controller", "update_leds", "yield"}

Min(a, b) == IF a < b THEN a ELSE b
Max(a, b) == IF a < b THEN b ELSE a

\* C1: in service mode, once should_shutdown is true no further update_leds
\* call is issued, in every interleaving of the stop handler and the loop.
C1_NoLedWriteAfterStop == [][should_shutdown => writes' = writes]_vars

C3_ConnectRetry ==
    [][ /\ pc \in ConnectPcs => result' # "Err"
        /\ (pc = "connecting" /\ pc' = "backoff") =>
               (timer' = BACKOFF_MS /\ failures' = failures + 1)
        /\ (pc = "backoff" /\ pc' # "backoff") => (timer = 0 /\ pc' = "connect_top")
        /\ (pc = "connect_top" /\ pc' # pc) =>
               IF InService /\ should_shutdown
               THEN pc' = "returned" /\ result' = "Ok"
               ELSE pc' = "connect_sel"
        /\ (pc = "connect_sel" /\ pc' # pc) =>
               (pc' = "connecting" /\ connects' = connects + 1)
        /\ (pc \in ConnectPcs /\ pc' \notin ConnectPcs \cup {"returned"}) =>
               (pc = "connecting" /\ pc' = "init" /\ client')
        /\ (pc \in ConnectPcs /\ pc' = "returned") =>
               (InService /\ should_shutdown /\ result' = "Ok")
      ]_vars

C3_Witness == failures >= 2 /\ connects >= 3 /\ pc = "init" /\ client

\* C4: when the notified() branch wins a select!, the raced operation is
\* dropped uncompleted (no connection, no LED write, no sample pushed by that
\* step), and from then on no connect attempt or cycle starts, no LED write is
\* issued, and the only move of the loop is to return Ok.
C4_StopWinsUnwinds ==
    [][ /\ (sel # "stop" /\ sel' = "stop") =>
               /\ pc' \in {"connect_top", "cycle_top"}
               /\ should_shutdown
               /\ UNCHANGED <<client, writes, connects, cycles, cpu_samples, gpu_samples>>
        /\ sel = "stop" =>
               /\ sel' = "stop"
               /\ UNCHANGED <<client, writes, connects, cycles, cpu_samples, gpu_samples>>
               /\ pc' # pc => (pc' = "returned" /\ result' = "Ok")
      ]_vars

C4_Witness == sel = "stop" /\ pc = "returned" /\ result = "Ok" /\ cycles > 0

\* C5: in service mode every wait of the loop (connect attempt, backoff,
\* sampling-interval sleep, controller I/O) is raced against the stop
\* notification, i.e. a Notified future exists while the loop waits there.
WaitPcs == {"connecting", "backoff", "cpu_sleep",
            "get_count", "get_controller", "update_leds"}

C5_EveryWaitRaced == (InService /\ Alive /\ pc \in WaitPcs) => armed

\* C6: in service mode launch_client has returned by the time the stop
\* handler's grace sleep has elapsed.
C6_ExitWithinGrace == hpc = "done" => pc = "returned"

\* C7: in service mode an Err from launch_client makes the process exit with a
\* non-zero status without reporting Stopped; an Ok return reports Stopped with
\* exit code 0.
C7_ServiceExitStatus ==
    /\ (InService /\ failed_at # "none" /\ proc = "exited") => result = "Err"
    /\ (InService /\ result = "Err") => service_status[1] # "Stopped"
    /\ (InService /\ result = "Err" /\ proc = "exited") => exit_code # 0
    /\ (InService /\ result = "Ok" /\ proc = "exited") =>
           (service_status = <<"Stopped", 0>> /\ exit_code = 0)

C7_Witness ==
    InService /\ failed_at \in CyclePcs /\ proc = "exited" /\ exit_code = -1

\* C8: a zone of "X570 AORUS ELITE" whose name matches no rule is reported as
\* a recoverable error: the process is not aborted, and no colours are
\* written for that controller as if the zone were not there.
KnownZones == {"D_LED1 Bottom", "D_LED2 Top", "Motherboard"}

HasUnknownZone(c) ==
    /\ c.name = "X570 AORUS ELITE"
    /\ \E i \in 1..Len(c.zones) : c.zones[i].name \notin KnownZones

C8_UnknownZoneRecoverable ==
    HasUnknownZone(controller) => (proc # "aborted" /\ pc # "update_leds")

\* C9: each buffer holds exactly the min(k, capacity) most recent of the k
\* samples pushed since allocation, never more than capacity, and the
\* smoothed value read in a cycle is the (f32) arithmetic mean of exactly
\* those samples.
Recent(history, capacity) ==
    SubSeq(history, Len(history) - Min(Len(history), capacity) + 1, Len(history))

RECURSIVE SumTo(_, _)
SumTo(samples, n) ==
    IF n = 0 THEN F32Zero
    ELSE IF n = 1 THEN samples[1]
    ELSE FAdd(SumTo(samples, n - 1), samples[n])

MeanOf(samples) == FDiv(SumTo(samples, Len(samples)), FromInt(Len(samples)))

HoldsRecent(rb, history) ==
    /\ rb_len(rb) <= rb.capacity
    /\ rb_len(rb) = Min(Len(history), rb.capacity)
    /\ rb_iter(rb) = Recent(history, rb.capacity)

C9_SamplerSemantics ==
    /\ HoldsRecent(cpu_samples, cpu_history)
    /\ HoldsRecent(gpu_samples, gpu_history)
    /\ pc \in (CyclePcs \ {"cpu_start", "cpu_sleep", "cpu_end"}) =>
           cpu_usage = MeanOf(Recent(cpu_history, cpu_samples.capacity))
    /\ pc \in {"get_count", "get_controller", "update_leds", "yield"} =>
           gpu_usage = MeanOf(Recent(gpu_history, gpu_samples.capacity))

C9_Witness ==
    /\ pc = "get_count"
    /\ Len(cpu_history) > cpu_samples.capacity
    /\ Len(gpu_history) > gpu_samples.capacity
    /\ cpu_history[1] # cpu_history[Len(cpu_history)]

\* C10: every channel of lerp_color(t, s, e), t in [0,1], lies between the
\* channels of s and e; lerp_color(0, s, e) = s and lerp_color(1, s, e) = e.
C10_LerpWithinEndpoints ==
    lerp_out # <<>> =>
        LET t == lerp_in[1]
            s == lerp_in[2]
            e == lerp_in[3]
        IN  /\ \A ch \in 1..3 :
                 /\ Min(s[ch], e[ch]) <= lerp_out[ch]
                 /\ lerp_out[ch] <= Max(s[ch], e[ch])
            /\ t = F32Zero => lerp_out = s
            /\ t = F32One => lerp_out = e

InUnit(t) == FLeq(F32Zero, t) /\ FLeq(t, F32One)

\* C11 (as claimed): for t in [0,1], the interpolation factor toward e does not
\* decrease as the LED index increases.
C11_FactorNonDecreasing ==
    (pc = "gradient_done" /\ InUnit(lerp_in[1])) =>
        \A i, j \in 1..lerp_in[4] :
            i < j => FLeq(lerp_out.factors[i], lerp_out.factors[j])

\* C11 (amended): for t in [0,1], the interpolation factor toward e does not
\* increase as the LED index increases: for i < j, LED j's factor is at most
\* LED i's (the strip fills toward e from LED 0).
C11_FactorNonIncreasing ==
    (pc = "gradient_done" /\ InUnit(lerp_in[1])) =>
        \A i, j \in 1..lerp_in[4] :
            i < j => FLeq(lerp_out.factors[j], lerp_out.factors[i])

C11_Witness ==
    /\ pc = "gradient_done" /\ InUnit(lerp_in[1]) /\ lerp_in[4] = 3
    /\ lerp_out.factors[1] = F32One
    /\ lerp_out.factors[2] = Percent(50)
    /\ lerp_out.factors[3] = F32Zero

\* C12: for t in [0,1] and n >= 0, gradient_colors(t, s, e, n) has length n and
\* its element at (0-based) index i is lerp_color(clamp(t*n - i, 0, 1), s, e);
\* gradient_colors(0, s, e, n) is all s and gradient_colors(1, s, e, n) all e.
C12_GradientElements ==
    (pc = "gradient_done" /\ InUnit(lerp_in[1])) =>
        LET t == lerp_in[1]
            s == lerp_in[2]
            e == lerp_in[3]
            n == lerp_in[4]
        IN  /\ Len(lerp_out.leds) = n
            /\ \A i \in 0..(n - 1) :
                 lerp_out.leds[i + 1] =
                     lerp_color(FClamp(FSub(FMul(t, FromInt(n)), FromInt(i)),
                                       F32Zero, F32One), s, e)
            /\ t = F32Zero => \A i \in 1..n : lerp_out.leds[i] = s
            /\ t = F32One => \A i \in 1..n : lerp_out.leds[i] = e

C12_Witness ==
    /\ pc = "gradient_done" /\ lerp_in[1] = F32One /\ lerp_in[4] = 3
    /\ lerp_in[2] = <<255, 255, 255>> /\ lerp_in[3] = <<255, 0, 0>>
    /\ lerp_out.leds = <<lerp_in[3], lerp_in[3], lerp_in[3]>>

\* C13: for "EVGA GeForce RTX 3080Ti FTW3 Ultra" the assignment is
\* block_colors(gpu_load, start, end, led_count), and every dispatch that
\* differs only in the CPU load gives the same assignment.
C13_GpuControllerIgnoresCpu ==
    (pc = "dispatched" /\ controller.name = "EVGA GeForce RTX 3080Ti FTW3 Ultra") =>
        /\ colors = generate_block_led_colors(gpu_usage, StartColor, EndColor,
                                              controller.leds)
        /\ \A cpu \in DispatchCpuLoads :
             controller_colors(controller, cpu, gpu_usage, StartColor, EndColor)
                 = [panic |-> FALSE, colors |-> colors]

C13_Witness ==
    /\ pc = "dispatched" /\ controller.name = "EVGA GeForce RTX 3080Ti FTW3 Ultra"
    /\ controller.leds = 2
    /\ cpu_usage = F32Zero /\ gpu_usage = Percent(50)
    /\ colors = <<<<255, 127, 127>>, <<255, 127, 127>>>>

\* C14: for "ENE DRAM" and every CPU load c in [0,1] the assignment is
\* gradient_colors(1 - c, end, start, led_count) over all LEDs of the
\* controller, whatever the GPU load.
C14_DramInvertedGradient ==
    (pc = "dispatched" /\ controller.name = "ENE DRAM" /\ InUnit(cpu_usage)) =>
        /\ colors = generate_gradient_led_colors(FSub(F32One, cpu_usage), EndColor,
                                                 StartColor, controller.leds)
        /\ Len(colors) = controller.leds
        /\ \A gpu \in DispatchGpuLoads :
             controller_colors(controller, cpu_usage, gpu, StartColor, EndColor)
                 = [panic |-> FALSE, colors |-> colors]

C14_Witness ==
    /\ pc = "dispatched" /\ controller.name = "ENE DRAM" /\ controller.leds = 2
    /\ cpu_usage = Percent(25)
    /\ colors = <<<<255, 255, 255>>, <<255, 127, 127>>>>
    /\ colors = generate_gradient_led_colors(Percent(75), EndColor, StartColor, 2)

\* C15: for "X570 AORUS ELITE" the assignment is the concatenation, in zone
\* order, of block_colors(cpu, start, end, n) for "D_LED1 Bottom",
\* gradient_colors(cpu, start, end, n) for "D_LED2 Top" and block colors for
\* "Motherboard", n being the zone's LED count.
RuleColors(zone, cpu) ==
    IF zone.name = "D_LED2 Top"
    THEN generate_gradient_led_colors(cpu, StartColor, EndColor, zone.leds_count)
    ELSE generate_block_led_colors(cpu, StartColor, EndColor, zone.leds_count)

RECURSIVE ConcatRules(_, _)
ConcatRules(zones, cpu) ==
    IF zones = <<>> THEN <<>>
    ELSE RuleColors(Head(zones), cpu) \o ConcatRules(Tail(zones), cpu)

C15_BoardConcatenation ==
    (pc # "dispatch" /\ controller.name = "X570 AORUS ELITE") =>
        /\ pc = "dispatched"
        /\ colors = ConcatRules(controller.zones, cpu_usage)

\* C16: in service mode, when should_shutdown is true as the loop stands at the
\* top of a connect iteration or of a cycle iteration, its next step is to
\* return Ok: that connect attempt or cycle is not started (and no LED write
\* or sample push happens).
C16_CheckedAtLoopTops ==
    [][ (InService /\ Alive /\ should_shutdown /\ pc \in {"connect_top", "cycle_top"}) =>
            /\ pc' # pc => (pc' = "returned" /\ result' = "Ok")
            /\ UNCHANGED <<connects, cycles, writes, client, cpu_samples, gpu_samples>>
      ]_vars

C16_Witness ==
    /\ InService /\ should_shutdown
    /\ pc = "returned" /\ result = "Ok"
    /\ ~client /\ failures = 1 /\ connects = 1 /\ sel = "op"

\* C17 (as claimed): both samples are taken before either is pushed, so a
\* cycle that fails while sampling the CPU or the GPU leaves both buffers as
\* they were when the cycle began (one sample per earlier cycle).
SamplePcs == {"cpu_start", "cpu_end", "gpu"}

C17_FailedSampleLeavesBuffers ==
    failed_at \in SamplePcs =>
        /\ Len(cpu_history) = cycles - 1
        /\ Len(gpu_history) = cycles - 1

\* C17 (amended): the steps of a cycle run in the order sample CPU, push it and
\* read the smoothed CPU value, sample GPU, push it and read the smoothed GPU
\* value, then topology reads and LED writes.  A cycle that fails while
\* sampling the CPU leaves both buffers unchanged; one that fails while
\* sampling the GPU leaves the GPU buffer unchanged and has already pushed its
\* CPU sample.  A failure at any step prevents every later step of the cycle:
\* no push, no topology read and no LED write follows it.
C17_StepOrderAndFailure ==
    /\ [](/\ failed_at \in {"cpu_start", "cpu_end"} =>
               (Len(cpu_history) = cycles - 1 /\ Len(gpu_history) = cycles - 1)
          /\ failed_at = "gpu" =>
               (Len(cpu_history) = cycles /\ Len(gpu_history) = cycles - 1))
    /\ [][ /\ cpu_history' # cpu_history =>
                 /\ pc = "cpu_end" /\ pc' = "gpu"
                 /\ Len(cpu_history) = cycles - 1 /\ Len(gpu_history) = cycles - 1
                 /\ cpu_usage' = smoothed(cpu_samples')
           /\ gpu_history' # gpu_history =>
                 /\ pc = "gpu" /\ pc' = "get_count"
                 /\ Len(cpu_history) = cycles /\ Len(gpu_history) = cycles - 1
                 /\ gpu_usage' = smoothed(gpu_samples')
           /\ (controller_count' # controller_count \/ controller' # controller
                 \/ writes' # writes) =>
                 /\ pc \in {"get_count", "get_controller", "update_leds"}
                 /\ Len(cpu_history) = cycles /\ Len(gpu_history) = cycles
           /\ (failed_at = "none" /\ failed_at' # "none") =>
                 /\ failed_at' = pc
                 /\ pc' = "returned" /\ result' = "Err"
                 /\ UNCHANGED <<cpu_samples, gpu_samples, cpu_history, gpu_history,
                                controller_count, controller, colors>>
                 /\ pc # "update_leds" => writes' = writes
           /\ failed_at # "none" =>
                 UNCHANGED <<cpu_samples, gpu_samples, cpu_history, gpu_history,
                             cpu_usage, gpu_usage, ioVars, cycles, connects>>
         ]_vars

C17_Witness ==
    /\ failed_at = "gpu" /\ pc = "returned" /\ result = "Err"
    /\ cycles = 2 /\ Len(cpu_history) = 2 /\ Len(gpu_history) = 1
    /\ rb_len(cpu_samples) = 2 /\ rb_len(gpu_samples) = 1
    /\ writes > 0

\* C18: for every controller and topology, zones with zero LEDs included,
\* computing the assignment never fails and yields one colour per LED: the
\* controller's LED count, which for "X570 AORUS ELITE" is the sum of its
\* zones' LED counts.
LedCount(c) ==
    IF c.name = "X570 AORUS ELITE" THEN zone_leds(c.zones) ELSE c.leds

C18_OneColorPerLed ==
    pc # "dispatch" =>
        /\ pc = "dispatched" /\ proc = "running"
        /\ Len(colors) = LedCount(controller)

\* C19: block_colors clamps its load argument: for every t, also outside
\* [0,1], block_colors(t, s, e, n) is n copies of lerp_color(clamp(t, 0, 1), s, e),
\* and no channel lies outside the range spanned by the endpoint channels.
C19_BlockClampsLoad ==
    pc = "block_done" =>
        LET t == lerp_in[1]
            s == lerp_in[2]
            e == lerp_in[3]
            n == lerp_in[4]
        IN  /\ lerp_out.leds = [i \in 1..n |-> lerp_color(FClamp(t, F32Zero, F32One), s, e)]
            /\ \A i \in 1..n : \A ch \in 1..3 :
                 /\ Min(s[ch], e[ch]) <= lerp_out.leds[i][ch]
                 /\ lerp_out.leds[i][ch] <= Max(s[ch], e[ch])

\* C20: the capacity of the sample buffers, next_power_of_two of the truncated
\* SAMPLE_TIME * (1 + 1 / SAMPLE_RATE), is a power of two and at least the
\* number of samples taken in one window: SAMPLE_TIME seconds divided by the
\* sampling interval of SAMPLE_RATE milliseconds.
WindowSamples == (FTrunc(SAMPLE_TIME, Pow2(23)) * 1000) \div SAMPLE_RATE

IsPowerOfTwo(n) == \E k \in 0..30 : n = Pow2(k)

C20_CapacityCoversWindow ==
    (cpu_samples # NoBuffer /\ gpu_samples # NoBuffer) =>
        /\ cpu_samples.capacity = next_power_of_two(SAMPLE_BUFFER_SIZE)
        /\ gpu_samples.capacity = cpu_samples.capacity
        /\ IsPowerOfTwo(cpu_samples.capacity)
        /\ cpu_samples.capacity >= WindowSamples

\* C21: with every raw sample in [0,1], each smoothed value is read from a
\* buffer that holds at least one sample (never the empty-buffer 0.0/0.0), each
\* smoothed value lies in [0,1], so does 1 - CPU, and so does every value
\* passed to lerp_color.
C21_FactorsInUnit ==
    /\ [](/\ pc \in {"gpu", "get_count", "get_controller", "update_leds", "yield"} =>
               /\ rb_len(cpu_samples) >= 1
               /\ cpu_usage # F32NaN /\ InUnit(cpu_usage)
               /\ InUnit(FSub(F32One, cpu_usage))
          /\ pc \in {"get_count", "get_controller", "update_leds", "yield"} =>
               /\ rb_len(gpu_samples) >= 1
               /\ gpu_usage # F32NaN /\ InUnit(gpu_usage)
          /\ pc \in {"update_leds", "panicked"} =>
               \A f \in controller_factors(controller, cpu_usage, gpu_usage) : InUnit(f))
    /\ [][ /\ cpu_usage' # cpu_usage =>
                 (rb_len(cpu_samples') >= 1 /\ cpu_usage' = smoothed(cpu_samples'))
           /\ gpu_usage' # gpu_usage =>
                 (rb_len(gpu_samples') >= 1 /\ gpu_usage' = smoothed(gpu_samples'))
         ]_vars

C21_Witness ==
    /\ pc = "update_leds" /\ cycles = 2
    /\ controller.name = "ENE DRAM"
    /\ cpu_history = <<F32One, F32Zero>>
    /\ cpu_usage = Percent(50)
    /\ gpu_history = <<F32One, F32Zero>>
    /\ gpu_usage = Percent(50)
    /\ controller_factors(controller, cpu_usage, gpu_usage) # {}

\* C22: should_shutdown is written only by the stop handler, only from false
\* to true and before notify_waiters.  Hence a cycle can begin with the flag
\* set only from the select! the loop had already reached when the flag was
\* set (with the flag set the loop never gets to the select! of another
\* cycle): at most one cycle begins after the flag is set, and the loop top
\* after that cycle, or after a woken wait, sees the flag and returns Ok.
C22_AtMostOneCycleAfterStop ==
    [][ /\ should_shutdown' # should_shutdown =>
               /\ InService /\ hpc = "idle" /\ hpc' = "stored"
               /\ ~should_shutdown /\ should_shutdown'
        /\ (hpc' = "grace" /\ hpc # "grace") => (hpc = "stored" /\ should_shutdown)
        /\ (woken' /\ ~woken) => should_shutdown
        /\ cycles' # cycles => (pc = "cycle_sel" /\ pc' = "cpu_start" /\ cycles' = cycles + 1)
        /\ (should_shutdown /\ pc' = "cycle_sel") => pc = "cycle_sel"
        /\ (should_shutdown /\ pc \in {"yield", "update_leds", "get_count"}
              /\ pc' \notin {pc, "returned", "get_controller", "yield", "update_leds"}) =>
               pc' = "cycle_top"
        /\ (sel' = "stop" /\ sel # "stop") =>
               (should_shutdown /\ pc' \in {"connect_top", "cycle_top"})
        /\ (InService /\ should_shutdown /\ pc \in {"connect_top", "cycle_top"} /\ pc' # pc) =>
               (pc' = "returned" /\ result' = "Ok")
      ]_vars

\* A cycle that began after the flag was set: its Notified future was created
\* after notify_waiters had fired.
C22_Witness ==
    /\ InService /\ should_shutdown /\ hpc = "grace"
    /\ pc = "cpu_start" /\ armed /\ ~woken /\ cycles = 2

====
